---- MODULE Spec2Model ----
(***************************************************************************)
(* Model of the "normalize" stage builder                                  *)
(*   src/src/engine/source/builder/builders/stageBuilderNormalize.cpp      *)
(*                                                                         *)
(* The build (stageBuilderNormalize and its helpers normalizeMap,          *)
(* normalizeCheck, normalizeConditionalMap) is a state machine over the    *)
(* iterator of the "normalize" array; the registry calls it makes are kept *)
(* in the history variable calls.  The Lifter it returns is then invoked   *)
(* on a stream of documents.                                               *)
(***************************************************************************)
EXTENDS Integers, Sequences, FiniteSets, TLC

(* ------------------------------------------------------------------ *)
(* Bounds of the model                                                 *)
(* ------------------------------------------------------------------ *)

\* longest "normalize" array
MaxEntries == 2

\* longest stream of documents driven through a built stage
MaxDocs == 2

\* frames of re-entry after which the call stack is exhausted
MaxStack == 2

(* ------------------------------------------------------------------ *)
(* Configuration values (base::DocumentValue, read only)               *)
(* ------------------------------------------------------------------ *)

\* field names and values of the documents and of the "map" members
Fields == {"a", "b"}

\* a "map" member: name and value
Pair(f, v) == <<f, v>>

\* values found under "map": kind and, for an object, its members in order
MapNotObject == [kind |-> "string", members |-> <<>>]

MapObject(ms) == [kind |-> "object", members |-> ms]

MapVals ==
    { MapNotObject,
      MapObject(<<>>),
      MapObject(<<Pair("a", 1)>>),
      MapObject(<<Pair("a", 2), Pair("b", 1)>>) }

\* values found under "check": kind and, for an array, its elements and the
\* capacity rapidjson has reserved for it (capacity >= size)
CheckNotArray == [kind |-> "string", elems |-> <<>>, capacity |-> 0]

CheckArray(es, cap) == [kind |-> "array", elems |-> es, capacity |-> cap]

CheckVals ==
    { CheckNotArray,
      CheckArray(<<>>, 0),
      CheckArray(<<>>, 1),
      CheckArray(<<Pair("a", 1)>>, 1) }

\* a member that is absent from an entry
Absent == [kind |-> "absent"]

\* an element of the "normalize" array: its kind and, for an object, the
\* value of "map", the value of "check" and the number of other members
Entry(k, m, c, x) == [kind |-> k, map |-> m, check |-> c, extra |-> x]

NonObjectEntry == Entry("string", Absent, Absent, 0)

Entries ==
    { NonObjectEntry }
    \cup { Entry("object", Absent, Absent, 0) }
    \cup { Entry("object", Absent, c, 0) :
             c \in {CheckNotArray, CheckArray(<<Pair("a", 1)>>, 1)} }
    \cup { Entry("object", m, Absent, 0) : m \in MapVals }
    \cup { Entry("object", MapObject(<<Pair("b", 2)>>), Absent, 1) }
    \cup { Entry("object", m, c, 0) : m \in MapVals, c \in CheckVals }
    \cup { Entry("object", MapObject(<<Pair("a", 1)>>),
                 CheckArray(<<Pair("a", 1)>>, 1), 1) }

HasMember(obj, name) ==
    IF name = "map" THEN obj.map # Absent ELSE obj.check # Absent

MemberCount(obj) ==
    (IF obj.map # Absent THEN 1 ELSE 0)
    + (IF obj.check # Absent THEN 1 ELSE 0)
    + obj.extra

\* sequences over S of length at most n
SeqUpTo(S, n) == UNION { [1..k -> S] : k \in 0..n }

\* the value handed to stageBuilderNormalize
NotArrayDef == [kind |-> "object", elems |-> <<>>]

ArrayDef(es) == [kind |-> "array", elems |-> es]

Defs == { NotArrayDef } \cup { ArrayDef(es) : es \in SeqUpTo(Entries, MaxEntries) }

(* ------------------------------------------------------------------ *)
(* Registry                                                            *)
(* ------------------------------------------------------------------ *)

BuilderNames == {"map", "check", "combinator.chain", "combinator.broadcast"}

FullRegistry ==
    [n \in BuilderNames |->
        IF n \in {"map", "check"} THEN "OpBuilder" ELSE "CombinatorBuilder"]

\* the populated registry, and registries where one builder is missing or
\* registered under the other kind
Registries ==
    { FullRegistry }
    \cup { [FullRegistry EXCEPT ![n] = "none"] : n \in BuilderNames }
    \cup { [FullRegistry EXCEPT ![n] =
              IF FullRegistry[n] = "OpBuilder" THEN "CombinatorBuilder"
              ELSE "OpBuilder"] : n \in {"check", "combinator.chain"} }

(* ------------------------------------------------------------------ *)
(* State                                                               *)
(* ------------------------------------------------------------------ *)

VARIABLES
    def,            \* the "normalize" value handed to stageBuilderNormalize
    registry,       \* Registry: builder name -> kind, fixed during a build
    pc,             \* position of the build, then of the invocation
    it,             \* iterator of the loop over def (1-based)
    op,             \* slot of normalizeOps the range-for reference op is
                    \* bound to (1-based)
    normalizeOps,   \* the build's local std::vector<Lifter>
    opsStorage,     \* "live" while normalizeOps exists, "released" after
    calls,          \* history: registry lookups and builder calls, in order
    error,          \* the exception leaving the build, outermost frame first
    result,         \* the Lifter returned by the build
    stream,         \* documents handed to the invoked Lifter
    li,             \* index of the operation broadcast is invoking
    depth,          \* nested invocations of the wrapper in progress
    emitted         \* documents that reached the stage's downstream

vars == <<def, registry, pc, it, op, normalizeOps, opsStorage, calls, error,
          result, stream, li, depth, emitted>>

(* ------------------------------------------------------------------ *)
(* Exceptions                                                          *)
(* ------------------------------------------------------------------ *)

\* one exception of a chain: its C++ type, the function that threw it and
\* the message it carries
Frame(t, fn, m) == [type |-> t, by |-> fn, msg |-> m]

\* std::throw_with_nested(std::invalid_argument(msg)) outside a handler:
\* nothing is nested
InvalidArgument(fn, m) == <<Frame("invalid_argument", fn, m)>>

\* std::throw_with_nested(std::runtime_error(msg)) inside catch (e):
\* e is nested under the new exception
Nested(fn, m, e) == <<Frame("runtime_error", fn, m)>> \o e

StructuralMsgs ==
    { "normalize_not_array", "element_not_object", "no_map_element",
      "conditional_map_member_count", "map_not_object", "map_empty",
      "check_not_array", "check_empty" }

(* ------------------------------------------------------------------ *)
(* Lifters                                                             *)
(* ------------------------------------------------------------------ *)

\* a Lifter: what it is, the Lifters it holds by value, the configuration
\* it was built from, and the slot of normalizeOps it refers to (0: none)
Lifter(t, ops, arg) == [type |-> t, ops |-> ops, arg |-> arg, ref |-> 0]

NoLifter == Lifter("none", <<>>, <<>>)

\* outcome of a helper: the Lifter or the exception, and the registry
\* events it produced
Ok(l, cs) == [ok |-> TRUE, lifter |-> l, err |-> <<>>, calls |-> cs]

Fail(e, cs) == [ok |-> FALSE, lifter |-> NoLifter, err |-> e, calls |-> cs]

Event(fn, ev, name) == [fn |-> fn, ev |-> ev, name |-> name]

(* ------------------------------------------------------------------ *)
(* Registry builders (outside this file)                               *)
(* ------------------------------------------------------------------ *)

\* the "map" operation builder: rejects a config that is not an object
\* with at least one member
MapBuilder(config) ==
    IF config.kind # "object" \/ Len(config.members) = 0
    THEN Fail(InvalidArgument("map", "builder_invalid_argument"), <<>>)
    ELSE Ok(Lifter("map", <<>>, config.members), <<>>)

\* the "check" operation builder: rejects a config that is not a non-empty
\* array
CheckBuilder(config) ==
    IF config.kind # "array" \/ Len(config.elems) = 0
    THEN Fail(InvalidArgument("check", "builder_invalid_argument"), <<>>)
    ELSE Ok(Lifter("check", <<>>, config.elems), <<>>)

\* combinator.chain and combinator.broadcast keep the list they are given
CombinatorBuilder(name, ops) == Ok(Lifter(name, ops, <<>>), <<>>)

\* std::get<Kind>(Registry::getBuilder(name)): the lookup throws when the
\* name is not registered, std::get throws when it holds the other kind
GetBuilder(fn, name, kind) ==
    IF registry[name] = "none"
    THEN Fail(<<Frame("registry", "getBuilder", "not_found")>>,
              <<Event(fn, "lookup", name)>>)
    ELSE IF registry[name] # kind
    THEN Fail(<<Frame("bad_variant_access", "std::get", "wrong_kind")>>,
              <<Event(fn, "lookup", name)>>)
    ELSE Ok(NoLifter, <<Event(fn, "lookup", name)>>)

\* std::get<OpBuilder>(Registry::getBuilder(name))(config, tr)
CallOpBuilder(fn, name, config) ==
    LET g == GetBuilder(fn, name, "OpBuilder")
        b == IF name = "map" THEN MapBuilder(config) ELSE CheckBuilder(config)
        cs == g.calls \o <<Event(fn, "call", name)>>
    IN  IF ~g.ok THEN g
        ELSE IF b.ok THEN Ok(b.lifter, cs) ELSE Fail(b.err, cs)

\* std::get<CombinatorBuilder>(Registry::getBuilder(name))(ops)
CallCombinator(fn, name, ops) ==
    LET g == GetBuilder(fn, name, "CombinatorBuilder")
    IN  IF ~g.ok THEN g
        ELSE Ok(CombinatorBuilder(name, ops).lifter,
                g.calls \o <<Event(fn, "call", name)>>)

(* ------------------------------------------------------------------ *)
(* normalizeMap                                                        *)
(* ------------------------------------------------------------------ *)

\* the loop over the members of the "map" object, from member i on: one
\* "map" operation is built per member, from an object holding that member
\* alone; the first failure is rethrown nested and ends the loop
RECURSIVE MapOpsFrom(_, _, _, _)
MapOpsFrom(members, i, mapOps, cs) ==
    IF i > Len(members) THEN Ok(Lifter("list", mapOps, <<>>), cs)
    ELSE LET pairKeyValue == MapObject(<<members[i]>>)
             b == CallOpBuilder("normalizeMap", "map", pairKeyValue)
         IN  IF ~b.ok
             THEN Fail(Nested("normalizeMap", "on_building", b.err),
                       cs \o b.calls)
             ELSE MapOpsFrom(members, i + 1, Append(mapOps, b.lifter),
                             cs \o b.calls)

\* normalizeMap handing the whole "map" object to one "map" operation
normalizeMap_WholeObject(ref) ==
    LET enter == <<Event("normalizeMap", "enter", "")>>
        b == CallOpBuilder("normalizeMap", "map", ref)
        c == CallCombinator("normalizeMap", "combinator.chain", <<b.lifter>>)
    IN  IF ref.kind # "object"
        THEN Fail(InvalidArgument("normalizeMap", "map_not_object"), enter)
        ELSE IF Len(ref.members) <= 0
        THEN Fail(InvalidArgument("normalizeMap", "map_empty"), enter)
        ELSE IF ~b.ok
        THEN Fail(Nested("normalizeMap", "on_building", b.err),
                  enter \o b.calls)
        ELSE IF ~c.ok
        THEN Fail(Nested("normalizeMap", "on_building", c.err),
                  enter \o b.calls \o c.calls)
        ELSE Ok(c.lifter, enter \o b.calls \o c.calls)

normalizeMap(ref) ==
    LET enter == <<Event("normalizeMap", "enter", "")>>
    IN  IF ref.kind # "object"
        THEN Fail(InvalidArgument("normalizeMap", "map_not_object"), enter)
        ELSE IF Len(ref.members) <= 0
        THEN Fail(InvalidArgument("normalizeMap", "map_empty"), enter)
        ELSE LET ms == MapOpsFrom(ref.members, 1, <<>>, enter)
                 c == CallCombinator("normalizeMap", "combinator.chain",
                                     ms.lifter.ops)
             IN  IF ~ms.ok THEN ms
                 ELSE IF ~c.ok
                 THEN Fail(Nested("normalizeMap", "on_building", c.err),
                           ms.calls \o c.calls)
                 ELSE Ok(c.lifter, ms.calls \o c.calls)

(* ------------------------------------------------------------------ *)
(* normalizeCheck                                                      *)
(* ------------------------------------------------------------------ *)

\* rapidjson's GenericArray::Capacity(): the reserved capacity, not the size
Capacity(checkArray) == checkArray.capacity

\* normalizeCheck with the "check" builder fetched from the registry before
\* the value is validated
normalizeCheck_LookupFirst(ref) ==
    LET enter == <<Event("normalizeCheck", "enter", "")>>
        g == GetBuilder("normalizeCheck", "check", "OpBuilder")
        b == CallOpBuilder("normalizeCheck", "check", ref)
        c == CallCombinator("normalizeCheck", "combinator.chain",
                            <<b.lifter>>)
    IN  IF ref.kind # "array"
        THEN Fail(InvalidArgument("normalizeCheck", "check_not_array"),
                  enter \o g.calls)
        ELSE IF Capacity(ref) <= 0
        THEN Fail(InvalidArgument("normalizeCheck", "check_empty"),
                  enter \o g.calls)
        ELSE IF ~b.ok
        THEN Fail(Nested("normalizeCheck", "on_building", b.err),
                  enter \o b.calls)
        ELSE IF ~c.ok
        THEN Fail(Nested("normalizeCheck", "on_building", c.err),
                  enter \o b.calls \o c.calls)
        ELSE Ok(c.lifter, enter \o b.calls \o c.calls)

normalizeCheck(ref) ==
    LET enter == <<Event("normalizeCheck", "enter", "")>>
    IN  IF ref.kind # "array"
        THEN Fail(InvalidArgument("normalizeCheck", "check_not_array"), enter)
        ELSE IF Capacity(ref) <= 0
        THEN Fail(InvalidArgument("normalizeCheck", "check_empty"), enter)
        ELSE LET b == CallOpBuilder("normalizeCheck", "check", ref)
                 c == CallCombinator("normalizeCheck", "combinator.chain",
                                     <<b.lifter>>)
             IN  IF ~b.ok
                 THEN Fail(Nested("normalizeCheck", "on_building", b.err),
                           enter \o b.calls)
                 ELSE IF ~c.ok
                 THEN Fail(Nested("normalizeCheck", "on_building", c.err),
                           enter \o b.calls \o c.calls)
                 ELSE Ok(c.lifter, enter \o b.calls \o c.calls)

(* ------------------------------------------------------------------ *)
(* normalizeConditionalMap                                             *)
(* ------------------------------------------------------------------ *)

\* normalizeConditionalMap rejecting only an entry with fewer than two
\* members
normalizeConditionalMap_AtLeastTwo(obj) ==
    LET enter == <<Event("normalizeConditionalMap", "enter", "")>>
        ck == normalizeCheck(obj.check)
        mp == normalizeMap(obj.map)
        c == CallCombinator("normalizeConditionalMap", "combinator.chain",
                            <<ck.lifter, mp.lifter>>)
    IN  IF MemberCount(obj) < 2
        THEN Fail(InvalidArgument("normalizeConditionalMap",
                                  "conditional_map_member_count"), enter)
        ELSE IF ~ck.ok
        THEN Fail(Nested("normalizeConditionalMap",
                         "on_building_check_object", ck.err),
                  enter \o ck.calls)
        ELSE IF ~mp.ok
        THEN Fail(Nested("normalizeConditionalMap",
                         "on_building_map_object", mp.err),
                  enter \o ck.calls \o mp.calls)
        ELSE IF ~c.ok
        THEN Fail(Nested("normalizeConditionalMap", "on_building", c.err),
                  enter \o ck.calls \o mp.calls \o c.calls)
        ELSE Ok(c.lifter, enter \o ck.calls \o mp.calls \o c.calls)

\* normalizeConditionalMap building the "map" side before the "check" side
normalizeConditionalMap_MapFirst(obj) ==
    LET enter == <<Event("normalizeConditionalMap", "enter", "")>>
        ck == normalizeCheck(obj.check)
        mp == normalizeMap(obj.map)
        c == CallCombinator("normalizeConditionalMap", "combinator.chain",
                            <<ck.lifter, mp.lifter>>)
    IN  IF MemberCount(obj) # 2
        THEN Fail(InvalidArgument("normalizeConditionalMap",
                                  "conditional_map_member_count"), enter)
        ELSE IF ~mp.ok
        THEN Fail(Nested("normalizeConditionalMap",
                         "on_building_map_object", mp.err),
                  enter \o mp.calls)
        ELSE IF ~ck.ok
        THEN Fail(Nested("normalizeConditionalMap",
                         "on_building_check_object", ck.err),
                  enter \o mp.calls \o ck.calls)
        ELSE IF ~c.ok
        THEN Fail(Nested("normalizeConditionalMap", "on_building", c.err),
                  enter \o mp.calls \o ck.calls \o c.calls)
        ELSE Ok(c.lifter, enter \o mp.calls \o ck.calls \o c.calls)

normalizeConditionalMap(obj) ==
    LET enter == <<Event("normalizeConditionalMap", "enter", "")>>
    IN  IF MemberCount(obj) # 2
        THEN Fail(InvalidArgument("normalizeConditionalMap",
                                  "conditional_map_member_count"), enter)
        ELSE LET ck == normalizeCheck(obj.check)
                 mp == normalizeMap(obj.map)
                 c == CallCombinator("normalizeConditionalMap",
                                     "combinator.chain",
                                     <<ck.lifter, mp.lifter>>)
             IN  IF ~ck.ok
                 THEN Fail(Nested("normalizeConditionalMap",
                                  "on_building_check_object", ck.err),
                           enter \o ck.calls)
                 ELSE IF ~mp.ok
                 THEN Fail(Nested("normalizeConditionalMap",
                                  "on_building_map_object", mp.err),
                           enter \o ck.calls \o mp.calls)
                 ELSE IF ~c.ok
                 THEN Fail(Nested("normalizeConditionalMap",
                                  "on_building", c.err),
                           enter \o ck.calls \o mp.calls \o c.calls)
                 ELSE Ok(c.lifter,
                         enter \o ck.calls \o mp.calls \o c.calls)

(* ------------------------------------------------------------------ *)
(* stageBuilderNormalize                                               *)
(* ------------------------------------------------------------------ *)

\* the events of a helper, marked with the entry they were made for
Tag(cs, idx) ==
    [k \in 1..Len(cs) |->
        [fn |-> cs[k].fn, ev |-> cs[k].ev, name |-> cs[k].name, entry |-> idx]]

Init ==
    /\ def \in Defs
    /\ registry \in Registries
    /\ pc = "start"
    /\ it = 1
    /\ op = 1
    /\ normalizeOps = <<>>
    /\ opsStorage = "live"
    /\ calls = <<>>
    /\ error = <<>>
    /\ result = NoLifter
    /\ stream = <<>>
    /\ li = 0
    /\ depth = 0
    /\ emitted = <<>>

\* the exception e leaves stageBuilderNormalize: its locals are destroyed
Throw(e) ==
    /\ error' = e
    /\ pc' = "failed"
    /\ opsStorage' = "released"
    /\ UNCHANGED <<def, registry, it, op, normalizeOps, result, stream, li,
                   depth, emitted>>

\* the loop going on to the next entry when a helper threw
PushBackOrSkip(r) ==
    /\ calls' = calls \o Tag(r.calls, it)
    /\ normalizeOps' = IF r.ok THEN Append(normalizeOps, r.lifter)
                       ELSE normalizeOps
    /\ it' = it + 1
    /\ UNCHANGED <<def, registry, pc, op, opsStorage, error, result, stream,
                   li, depth, emitted>>

\* normalizeOps.push_back(r) for a helper that returned, and ++it; the
\* exception of a helper that threw is not caught by the loop
PushBackOrThrow(r) ==
    /\ calls' = calls \o Tag(r.calls, it)
    /\ IF r.ok
       THEN /\ normalizeOps' = Append(normalizeOps, r.lifter)
            /\ it' = it + 1
            /\ UNCHANGED <<def, registry, pc, op, opsStorage, error,
                           result, stream, li, depth, emitted>>
       ELSE Throw(r.err)

\* if (!def.IsArray()) throw
AssertArray ==
    /\ pc = "start"
    /\ IF def.kind # "array"
       THEN /\ Throw(InvalidArgument("stageBuilderNormalize",
                                     "normalize_not_array"))
            /\ UNCHANGED calls
       ELSE /\ pc' = "loop"
            /\ UNCHANGED <<def, registry, it, op, normalizeOps, opsStorage,
                           calls, error, result, stream, li, depth, emitted>>

InLoop == pc = "loop" /\ it <= Len(def.elems)

\* an element that is not an object
ElementNotObject ==
    /\ InLoop
    /\ def.elems[it].kind # "object"
    /\ Throw(InvalidArgument("stageBuilderNormalize", "element_not_object"))
    /\ UNCHANGED calls

\* an object without "map"
NoMapElement ==
    /\ InLoop
    /\ def.elems[it].kind = "object"
    /\ ~HasMember(def.elems[it], "map")
    /\ Throw(InvalidArgument("stageBuilderNormalize", "no_map_element"))
    /\ UNCHANGED calls

\* an object with "map" and "check"
BuildConditionalMap ==
    /\ InLoop
    /\ def.elems[it].kind = "object"
    /\ HasMember(def.elems[it], "map")
    /\ HasMember(def.elems[it], "check")
    /\ PushBackOrThrow(normalizeConditionalMap(def.elems[it]))

\* every object with "map" taken for a plain map
BuildMap_AnyObjectWithMap ==
    /\ InLoop
    /\ def.elems[it].kind = "object"
    /\ HasMember(def.elems[it], "map")
    /\ PushBackOrThrow(normalizeMap(def.elems[it].map))

\* an object with "map" and without "check"
BuildMap ==
    /\ InLoop
    /\ def.elems[it].kind = "object"
    /\ HasMember(def.elems[it], "map")
    /\ ~HasMember(def.elems[it], "check")
    /\ PushBackOrThrow(normalizeMap(def.elems[it].map))

\* it == def.End(): the try block starts with the range-for over normalizeOps
EndLoop ==
    /\ pc = "loop"
    /\ it > Len(def.elems)
    /\ pc' = "wrap"
    /\ UNCHANGED <<def, registry, it, op, normalizeOps, opsStorage, calls,
                   error, result, stream, li, depth, emitted>>

\* the closure [&op]: it holds a reference to the slot op is bound to
Wrapper(slot) == [type |-> "wrapper", ops |-> <<>>, arg |-> <<>>, ref |-> slot]

\* op = [&op](base::Observable in) {...}: the closure is stored in the very
\* slot it refers to, the Lifter that was there is destroyed
WrapOp ==
    /\ pc = "wrap"
    /\ op <= Len(normalizeOps)
    /\ normalizeOps' = [normalizeOps EXCEPT ![op] = Wrapper(op)]
    /\ op' = op + 1
    /\ UNCHANGED <<def, registry, pc, it, opsStorage, calls, error, result,
                   stream, li, depth, emitted>>

PassThrough == Lifter("passthrough", <<>>, <<>>)

\* a build that appends no pass-through to the wrapped operations
AppendPassThrough_Omitted ==
    /\ pc = "wrap"
    /\ op > Len(normalizeOps)
    /\ opsStorage' \in {"live", "moved"}
    /\ pc' = "broadcast"
    /\ UNCHANGED <<def, registry, it, op, normalizeOps, calls, error, result,
                   stream, li, depth, emitted>>

\* normalizeOps.push_back([](base::Observable in) { return in; }): the
\* vector may move its elements to a new buffer and free the one the
\* closures refer to
AppendPassThrough ==
    /\ pc = "wrap"
    /\ op > Len(normalizeOps)
    /\ normalizeOps' = Append(normalizeOps, PassThrough)
    /\ opsStorage' \in {"live", "moved"}
    /\ pc' = "broadcast"
    /\ UNCHANGED <<def, registry, it, op, calls, error, result, stream, li,
                   depth, emitted>>

\* a build that, having combined the operations, invokes the first of them
Broadcast_InvokesOps ==
    /\ pc = "broadcast"
    /\ LET c == CallCombinator("stageBuilderNormalize",
                               "combinator.broadcast", normalizeOps)
       IN  /\ calls' = calls \o Tag(c.calls, 0)
           /\ IF c.ok
              THEN /\ result' = c.lifter
                   /\ pc' = "built"
                   /\ error' = <<>>
              ELSE /\ error' = Nested("stageBuilderNormalize", "on_building",
                                      c.err)
                   /\ pc' = "failed"
                   /\ result' = NoLifter
    /\ opsStorage' = IF opsStorage = "live" THEN "released" ELSE opsStorage
    /\ li' = 1
    /\ UNCHANGED <<def, registry, it, op, normalizeOps, stream, depth,
                   emitted>>

\* return combinator.broadcast(normalizeOps), or the handler of the try
\* block; either way normalizeOps is destroyed
Broadcast ==
    /\ pc = "broadcast"
    /\ LET c == CallCombinator("stageBuilderNormalize",
                               "combinator.broadcast", normalizeOps)
       IN  /\ calls' = calls \o Tag(c.calls, 0)
           /\ IF c.ok
              THEN /\ result' = c.lifter
                   /\ pc' = "built"
                   /\ error' = <<>>
              ELSE /\ error' = Nested("stageBuilderNormalize", "on_building",
                                      c.err)
                   /\ pc' = "failed"
                   /\ result' = NoLifter
    /\ opsStorage' = IF opsStorage = "live" THEN "released" ELSE opsStorage
    /\ UNCHANGED <<def, registry, it, op, normalizeOps, stream, li, depth,
                   emitted>>

(* ------------------------------------------------------------------ *)
(* Invocation of the returned Lifter                                   *)
(* ------------------------------------------------------------------ *)

\* a document: its position in the stream and the value of each field
\* (0: the field is not set)
Doc(i, fs) == [id |-> i, fields |-> fs]

DocFields == { [f \in Fields |-> 0], [f \in Fields |-> IF f = "a" THEN 1 ELSE 0] }

Streams ==
    { [k \in 1..Len(s) |-> Doc(k, s[k])] : s \in SeqUpTo(DocFields, MaxDocs) }

\* the engine invokes the Lifter on an observable of documents; broadcast
\* invokes each operation of its list on it, in order
Invoke ==
    /\ pc = "built"
    /\ \E s \in Streams : stream' = s
    /\ pc' = "lifting"
    /\ li' = 1
    /\ UNCHANGED <<def, registry, it, op, normalizeOps, opsStorage, calls,
                   error, result, depth, emitted>>

Lifting(t) ==
    /\ pc = "lifting"
    /\ li <= Len(result.ops)
    /\ result.ops[li].type = t

\* what the closure finds when it calls op through its reference: the
\* buffer is gone, either since the push_back (its slots were moved from, so
\* an empty std::function or whatever the allocator put there) or since the
\* build returned (the bytes of the destroyed closure itself or whatever
\* the allocator put there)
DanglingReads ==
    IF opsStorage = "moved" THEN {"empty", "garbage"} ELSE {"self", "garbage"}

\* op(in) finds the closure itself: the wrapper is entered again, until the
\* stack is exhausted
WrapperReenters ==
    /\ Lifting("wrapper")
    /\ "self" \in DanglingReads
    /\ normalizeOps[result.ops[li].ref] = result.ops[li]
    /\ IF depth < MaxStack
       THEN depth' = depth + 1 /\ pc' = pc
       ELSE depth' = depth /\ pc' = "crashed"
    /\ UNCHANGED <<def, registry, it, op, normalizeOps, opsStorage, calls,
                   error, result, stream, li, emitted>>

\* op(in) finds an empty std::function: std::bad_function_call leaves the
\* invocation
WrapperThrows ==
    /\ Lifting("wrapper")
    /\ "empty" \in DanglingReads
    /\ pc' = "threw"
    /\ UNCHANGED <<def, registry, it, op, normalizeOps, opsStorage, calls,
                   error, result, stream, li, depth, emitted>>

\* op(in) finds bytes that are no std::function
WrapperCrashes ==
    /\ Lifting("wrapper")
    /\ "garbage" \in DanglingReads
    /\ pc' = "crashed"
    /\ UNCHANGED <<def, registry, it, op, normalizeOps, opsStorage, calls,
                   error, result, stream, li, depth, emitted>>

\* the pass-through returns its input; broadcast has invoked its whole list
\* and the documents start to flow
LiftPassThrough ==
    /\ Lifting("passthrough")
    /\ li' = li + 1
    /\ pc' = IF li = Len(result.ops) THEN "running" ELSE pc
    /\ UNCHANGED <<def, registry, it, op, normalizeOps, opsStorage, calls,
                   error, result, stream, depth, emitted>>

\* a pass-through whose output reaches the downstream twice
Publish_Twice ==
    /\ pc = "running"
    /\ Len(emitted) < Len(stream)
    /\ emitted' = emitted \o <<stream[Len(emitted) + 1],
                              stream[Len(emitted) + 1]>>
    /\ UNCHANGED <<def, registry, pc, it, op, normalizeOps, opsStorage, calls,
                   error, result, stream, li, depth>>

\* the next document of the stream reaches the pass-through, which forwards it
Publish ==
    /\ pc = "running"
    /\ Len(emitted) < Len(stream)
    /\ emitted' = Append(emitted, stream[Len(emitted) + 1])
    /\ UNCHANGED <<def, registry, pc, it, op, normalizeOps, opsStorage, calls,
                   error, result, stream, li, depth>>

\* the stream completes
Complete ==
    /\ pc = "running"
    /\ Len(emitted) = Len(stream)
    /\ pc' = "completed"
    /\ UNCHANGED <<def, registry, it, op, normalizeOps, opsStorage, calls,
                   error, result, stream, li, depth, emitted>>

Next ==
    \/ AssertArray
    \/ ElementNotObject
    \/ NoMapElement
    \/ BuildConditionalMap
    \/ BuildMap
    \/ EndLoop
    \/ WrapOp
    \/ AppendPassThrough
    \/ Broadcast
    \/ Invoke
    \/ WrapperReenters
    \/ WrapperThrows
    \/ WrapperCrashes
    \/ LiftPassThrough
    \/ Publish
    \/ Complete

Spec == Init /\ [][Next]_vars

(* ------------------------------------------------------------------ *)
(* What the stage is specified to compute (spec 4.2, 4.3)              *)
(* ------------------------------------------------------------------ *)

\* a condition of a "check" array holds on a document
Holds(cond, fs) == fs[cond[1]] = cond[2]

\* the "check" of an entry passes on a document (an entry without "check"
\* has nothing to pass)
CheckPasses(entry, fs) ==
    \/ entry.check = Absent
    \/ \A k \in 1..Len(entry.check.elems) : Holds(entry.check.elems[k], fs)

\* the assignments of a "map" object, applied in order from member i on
RECURSIVE SetAll(_, _, _)
SetAll(members, i, fs) ==
    IF i > Len(members) THEN fs
    ELSE SetAll(members, i + 1,
                [fs EXCEPT ![members[i][1]] = members[i][2]])

\* every entry from i on applied in declaration order, an entry whose
\* check fails being skipped
RECURSIVE Normalized(_, _, _)
Normalized(elems, i, fs) ==
    IF i > Len(elems) THEN fs
    ELSE Normalized(elems, i + 1,
                    IF CheckPasses(elems[i], fs)
                    THEN SetAll(elems[i].map.members, 1, fs)
                    ELSE fs)

\* every entry from i on applied in declaration order
RECURSIVE AllMapped(_, _, _)
AllMapped(elems, i, fs) ==
    IF i > Len(elems) THEN fs
    ELSE AllMapped(elems, i + 1, SetAll(elems[i].map.members, 1, fs))

(* ------------------------------------------------------------------ *)
(* Vocabulary of the properties                                        *)
(* ------------------------------------------------------------------ *)

\* the invocation of the built Lifter is over: the stream completed, or
\* the invocation threw or crashed
InvocationOver == pc \in {"completed", "threw", "crashed"}

\* number of entries of the stage
N == Len(def.elems)

\* the loop body of stageBuilderNormalize has run for entry i
Reached(i) ==
    /\ pc # "start"
    /\ i \in 1..N
    /\ \/ it > i
       \/ it = i /\ pc = "failed"

\* the build failed in the loop, on entry it
FailedOnEntry == pc = "failed" /\ def.kind = "array" /\ it <= N

\* the events recorded for entry i
EventsOf(i) == { k \in 1..Len(calls) : calls[k].entry = i }

\* the registry lookups and builder calls among them
RegistryEventsOf(i) == { k \in EventsOf(i) : calls[k].ev # "enter" }

Last(s) == s[Len(s)]

(* ------------------------------------------------------------------ *)
(* C1  one output per input                                            *)
(* ------------------------------------------------------------------ *)

\* C1: once the invocation of a built stage on a stream of L documents is
\* over, the stage has emitted exactly L documents, the k-th being the k-th
\* input document, whatever the number of entries and whatever their checks
\* decide.
C1_OneOutputPerInput ==
    InvocationOver =>
        /\ Len(emitted) = Len(stream)
        /\ \A k \in 1..Len(stream) : emitted[k].id = stream[k].id

(* ------------------------------------------------------------------ *)
(* C2  union of the mutations                                          *)
(* ------------------------------------------------------------------ *)

\* C2: once the invocation is over, a document that passes the check of
\* every entry has been emitted once, as the input document with the map
\* assignments of every entry applied in declaration order (the later entry
\* wins on a field two entries assign).
C2_MutationUnion ==
    InvocationOver =>
        \A k \in 1..Len(stream) :
            (\A i \in 1..N : CheckPasses(def.elems[i], stream[k].fields)) =>
                /\ k <= Len(emitted)
                /\ emitted[k] =
                       Doc(k, AllMapped(def.elems, 1, stream[k].fields))

(* ------------------------------------------------------------------ *)
(* C3  short circuit                                                   *)
(* ------------------------------------------------------------------ *)

\* C3: once the invocation is over, a document on which the check of some
\* conditional entry fails has been emitted once, carrying the assignments
\* of the entries whose check passes (or that have no check) and none of
\* the entries whose check fails.
C3_ShortCircuit ==
    InvocationOver =>
        \A k \in 1..Len(stream) :
            (\E i \in 1..N : ~CheckPasses(def.elems[i], stream[k].fields)) =>
                /\ k <= Len(emitted)
                /\ emitted[k] =
                       Doc(k, Normalized(def.elems, 1, stream[k].fields))

(* ------------------------------------------------------------------ *)
(* C4  the pass-through publishes last                                 *)
(* ------------------------------------------------------------------ *)

\* broadcast has invoked operation i of its list on the stream and got its
\* observable: only then can the branch behind it process a document
Subscribed(i) == pc \in {"lifting", "running", "completed"} /\ li > i

Throwers(e) == [k \in 1..Len(e) |-> e[k].by]

\* C5: a failure raised below stageBuilderNormalize while it builds an
\* entry leaves it under the stage's own context frame, and an empty map
\* object inside a conditional entry yields the chain normalize stage,
\* conditional-map branch, empty-map violation.
C5_StageFrameOutermost ==
    (FailedOnEntry /\ Last(error).by # "stageBuilderNormalize") =>
        /\ error[1].by = "stageBuilderNormalize"
        /\ (Last(error).msg = "map_empty"
              /\ HasMember(def.elems[it], "check")) =>
                Throwers(error) = <<"stageBuilderNormalize",
                                    "normalizeConditionalMap",
                                    "normalizeMap">>

(* ------------------------------------------------------------------ *)
(* C6  member count of a conditional entry                             *)
(* ------------------------------------------------------------------ *)

IsObject(e) == e.kind = "object"

IsConditional(e) ==
    IsObject(e) /\ HasMember(e, "map") /\ HasMember(e, "check")

IsPlain(e) == IsObject(e) /\ HasMember(e, "map") /\ ~HasMember(e, "check")

\* the build ended on entry i with the single exception e
EndedOn(i, e) == pc = "failed" /\ it = i /\ error = e

\* C6: an entry with "check" and "map" and a member count other than 2
\* ends the build with the member-count error, and for that entry nothing
\* but the entry into normalizeConditionalMap has happened (neither
\* normalizeCheck nor normalizeMap is entered, no registry builder is looked
\* up); an entry whose only member is "check" ends the build with a
\* structural error too.
C6_ArityBeforeHalves ==
    \A i \in 1..N :
        Reached(i) =>
            LET e == def.elems[i] IN
            /\ (IsConditional(e) /\ MemberCount(e) # 2) =>
                  /\ EndedOn(i, InvalidArgument("normalizeConditionalMap",
                                     "conditional_map_member_count"))
                  /\ \A k \in EventsOf(i) :
                        /\ calls[k].fn = "normalizeConditionalMap"
                        /\ calls[k].ev = "enter"
            /\ (IsObject(e) /\ HasMember(e, "check") /\ MemberCount(e) = 1) =>
                  /\ pc = "failed" /\ it = i
                  /\ Len(error) = 1
                  /\ error[1].type = "invalid_argument"
                  /\ error[1].msg \in StructuralMsgs
                  /\ EventsOf(i) = {}

\* a three-member conditional entry was met after a well-formed entry
C6_Witness ==
    /\ FailedOnEntry
    /\ it = 2
    /\ IsConditional(def.elems[2])
    /\ MemberCount(def.elems[2]) = 3
    /\ RegistryEventsOf(1) # {}

(* ------------------------------------------------------------------ *)
(* C7  classification of the entries                                   *)
(* ------------------------------------------------------------------ *)

Min(S) == CHOOSE x \in S : \A y \in S : x <= y

\* C7: a value that is not an array ends the build with a structural
\* error; an entry with "map" and no "check" is handed to normalizeMap and
\* to nothing else, an entry with both to normalizeConditionalMap, and any
\* other entry ends the build with a structural error of the stage before
\* any helper is entered.
C7_Classification ==
    /\ (def.kind # "array" /\ pc # "start") =>
          /\ EndedOn(1, InvalidArgument("stageBuilderNormalize",
                                        "normalize_not_array"))
          /\ calls = <<>>
    /\ \A i \in 1..N :
          Reached(i) =>
              LET e == def.elems[i] IN
              /\ IsPlain(e) =>
                    /\ EventsOf(i) # {}
                    /\ \A k \in EventsOf(i) : calls[k].fn = "normalizeMap"
              /\ IsConditional(e) =>
                    /\ EventsOf(i) # {}
                    /\ calls[Min(EventsOf(i))].fn = "normalizeConditionalMap"
              /\ (IsObject(e) /\ ~HasMember(e, "map")) =>
                    /\ EndedOn(i, InvalidArgument("stageBuilderNormalize",
                                                  "no_map_element"))
                    /\ EventsOf(i) = {}
              /\ ~IsObject(e) =>
                    /\ EndedOn(i, InvalidArgument("stageBuilderNormalize",
                                                  "element_not_object"))
                    /\ EventsOf(i) = {}

\* an entry with only "check" was met after a conditional entry was built
C7_Witness ==
    /\ FailedOnEntry
    /\ it = 2
    /\ IsConditional(def.elems[1])
    /\ HasMember(def.elems[2], "check")
    /\ ~HasMember(def.elems[2], "map")

(* ------------------------------------------------------------------ *)
(* C8  no partial pipeline                                             *)
(* ------------------------------------------------------------------ *)

\* building entry i throws
EntryFails(i) ==
    LET e == def.elems[i] IN
    \/ ~IsObject(e)
    \/ ~HasMember(e, "map")
    \/ IsConditional(e) /\ ~normalizeConditionalMap(e).ok
    \/ IsPlain(e) /\ ~normalizeMap(e.map).ok

\* C8: when the build of entry i fails the stage build is over on that
\* entry with an exception: no Lifter is returned, only the entries before
\* i are in normalizeOps, nothing was done for an entry after i and
\* combinator.broadcast was neither looked up nor called.
C8_NoPartialPipeline ==
    \A i \in 1..N :
        (Reached(i) /\ EntryFails(i)) =>
            /\ pc = "failed" /\ it = i
            /\ error # <<>>
            /\ result = NoLifter
            /\ Len(normalizeOps) = i - 1
            /\ \A k \in 1..Len(calls) :
                  /\ calls[k].entry \in 1..i
                  /\ calls[k].name # "combinator.broadcast"

\* the first of two entries failed in a helper
C8_Witness ==
    /\ FailedOnEntry
    /\ it = 1
    /\ N = 2
    /\ Len(error) >= 2

(* ------------------------------------------------------------------ *)
(* C9  structural errors and builder calls                             *)
(* ------------------------------------------------------------------ *)

\* the build failed and the innermost exception is a structural error
StructuralFailure == pc = "failed" /\ Last(error).msg \in StructuralMsgs

\* C9 (as claimed): when a build fails with a structural error no registry
\* builder has been looked up or called earlier in that build.
C9_NoBuilderBeforeStructuralError ==
    StructuralFailure => \A k \in 1..Len(calls) : calls[k].ev = "enter"

\* C9 (amended): when a build fails with a structural error, no registry
\* builder has been looked up or called for the malformed element: the
\* lookups and calls made so far are for earlier entries or, when the map
\* value of a conditional entry is malformed, for the check side of that
\* entry; combinator.broadcast has not been looked up.
C9_NoBuilderForMalformedElement ==
    StructuralFailure =>
        /\ def.kind # "array" => calls = <<>>
        /\ \A k \in 1..Len(calls) :
              /\ calls[k].entry \in 1..it
              /\ calls[k].name # "combinator.broadcast"
        /\ \A k \in RegistryEventsOf(it) :
              /\ calls[k].fn = "normalizeCheck"
              /\ Last(error).by = "normalizeMap"

\* an empty map in a conditional entry whose check was built, after an
\* entry that was built
C9_Witness ==
    /\ StructuralFailure
    /\ it = 2
    /\ Last(error).msg = "map_empty"
    /\ RegistryEventsOf(2) # {}
    /\ RegistryEventsOf(1) # {}

(* ------------------------------------------------------------------ *)
(* C10  empty check                                                    *)
(* ------------------------------------------------------------------ *)

\* C10: a two-member conditional entry whose check value is not an array,
\* or is an array with no element whatever its capacity, ends the build
\* with an invalid-argument error, the "check" operation builder not having
\* been called for it (with every builder registered under its kind).
C10_EmptyCheckRejected ==
    \A i \in 1..N :
        LET e == def.elems[i] IN
        (/\ Reached(i)
         /\ registry = FullRegistry
         /\ IsConditional(e)
         /\ MemberCount(e) = 2
         /\ (e.check.kind # "array" \/ Len(e.check.elems) = 0)) =>
            /\ pc = "failed" /\ it = i
            /\ Last(error).type = "invalid_argument"
            /\ \A k \in EventsOf(i) :
                  ~(calls[k].name = "check" /\ calls[k].ev = "call")

(* ------------------------------------------------------------------ *)
(* C11  the empty stage is the identity                                *)
(* ------------------------------------------------------------------ *)

\* an empty "normalize" array, combinator.broadcast being registered
EmptyStage ==
    /\ def = ArrayDef(<<>>)
    /\ registry["combinator.broadcast"] = "CombinatorBuilder"

\* C11: an empty normalize array never fails to build, no map or check
\* builder is looked up or called for it, and its Lifter neither throws nor
\* crashes: what it has emitted is at every moment a prefix of the input
\* stream, documents unchanged, and the whole stream once it has completed.
C11_EmptyStageIdentity ==
    EmptyStage =>
        /\ pc \notin {"failed", "threw", "crashed"}
        /\ \A k \in 1..Len(calls) : calls[k].name \notin {"map", "check"}
        /\ Len(emitted) <= Len(stream)
        /\ \A k \in 1..Len(emitted) : emitted[k] = stream[k]
        /\ pc = "completed" => emitted = stream

\* the Lifter of an empty array has forwarded a stream of two documents
C11_Witness ==
    /\ EmptyStage
    /\ pc = "completed"
    /\ Len(stream) = 2
    /\ emitted = stream

(* ------------------------------------------------------------------ *)
(* C12  building drives no document                                    *)
(* ------------------------------------------------------------------ *)

\* stageBuilderNormalize is running
Building == pc \in {"start", "loop", "wrap", "broadcast"}

\* no Lifter has been invoked on a stream and no document has been
\* consumed or emitted
NothingDriven == stream = <<>> /\ emitted = <<>> /\ li = 0 /\ depth = 0

\* C12: while stageBuilderNormalize runs and when it has returned or
\* thrown, no operation has been invoked on a stream and no document has
\* been consumed or emitted; no step of the build changes the configuration
\* it was given.
C12_BuildDrivesNothing ==
    /\ [](Building \/ pc \in {"built", "failed"} => NothingDriven)
    /\ [][Building => def' = def]_vars

\* a stage of two entries has been built and nothing has been driven
C12_Witness ==
    /\ pc = "built"
    /\ N = 2
    /\ Len(result.ops) = 3
    /\ NothingDriven

(* ------------------------------------------------------------------ *)
(* C13  the wrapper applies its branch once                            *)
(* ------------------------------------------------------------------ *)

\* the slots of normalizeOps that hold a wrapper
Wrapped == { i \in 1..Len(normalizeOps) : normalizeOps[i].type = "wrapper" }

\* C13: the slot a wrapper reads its branch from holds the branch built for
\* the entry (a chain), not the wrapper, so that invoking the wrapper never
\* enters the wrapper again and never exhausts the stack.
C13_WrapperAppliesBranchOnce ==
    /\ \A i \in Wrapped :
          /\ normalizeOps[normalizeOps[i].ref] # normalizeOps[i]
          /\ normalizeOps[normalizeOps[i].ref].type = "combinator.chain"
    /\ depth = 0
    /\ pc # "crashed"

(* ------------------------------------------------------------------ *)
(* C14  sub-transformers held by value                                 *)
(* ------------------------------------------------------------------ *)

\* the build has returned its Lifter
Returned == pc \in {"built", "lifting", "running", "completed", "threw",
                    "crashed"}

\* C14: once the build has returned, no operation of the returned Lifter
\* refers to a slot of normalizeOps, the build's local vector, which is
\* appended to after the wrapping and destroyed at the return.
C14_HeldByValue ==
    Returned => \A k \in 1..Len(result.ops) : result.ops[k].ref = 0

(* ------------------------------------------------------------------ *)
(* C15  the failing side of a conditional entry                        *)
(* ------------------------------------------------------------------ *)

\* a "check" value the check side cannot be built from (spec 4.2)
MalformedCheck(c) == c.kind # "array" \/ Len(c.elems) = 0

\* a "map" value the map side cannot be built from (spec 4.2)
MalformedMap(m) == m.kind # "object" \/ Len(m.members) = 0

\* the builders the check side needs are registered under their kind
CheckSideRegistered ==
    /\ registry["check"] = "OpBuilder"
    /\ registry["combinator.chain"] = "CombinatorBuilder"

\* the outermost exception reports the given side of a conditional entry
Reports(side) ==
    error[1] = Frame("runtime_error", "normalizeConditionalMap", side)

\* C15: a two-member conditional entry with a malformed check ends the
\* build with the failure of the "check" object, normalizeMap never having
\* been entered for it, also when its map is malformed too; one with a
\* well-formed check and a malformed map ends it with the failure of the
\* "map" object, below which lies the exception of normalizeMap.
C15_FailingSideNamed ==
    \A i \in 1..N :
        LET e == def.elems[i] IN
        (Reached(i) /\ IsConditional(e) /\ MemberCount(e) = 2) =>
            /\ MalformedCheck(e.check) =>
                  /\ pc = "failed" /\ it = i
                  /\ Reports("on_building_check_object")
                  /\ \A k \in EventsOf(i) : calls[k].fn # "normalizeMap"
                  /\ \A k \in 1..Len(error) : error[k].by # "normalizeMap"
            /\ (/\ ~MalformedCheck(e.check)
                /\ CheckSideRegistered
                /\ MalformedMap(e.map)) =>
                  /\ pc = "failed" /\ it = i
                  /\ Reports("on_building_map_object")
                  /\ Last(error).by = "normalizeMap"

\* a conditional entry whose two sides are malformed has ended the build
C15_Witness ==
    /\ FailedOnEntry
    /\ IsConditional(def.elems[it])
    /\ MemberCount(def.elems[it]) = 2
    /\ MalformedCheck(def.elems[it].check)
    /\ MalformedMap(def.elems[it].map)
    /\ Reports("on_building_check_object")

(* ------------------------------------------------------------------ *)
(* C16  shape of a branch                                              *)
(* ------------------------------------------------------------------ *)

\* the branch of entry i is in normalizeOps as it was built
BranchBuilt(i) ==
    /\ i \in 1..N
    /\ \/ pc = "loop" /\ it > i
       \/ pc = "wrap" /\ op <= i

\* the calls of the named builder made for entry i
CallsOf(i, name) ==
    { k \in EventsOf(i) : calls[k].ev = "call" /\ calls[k].name = name }

Chain(ops) == Lifter("combinator.chain", ops, <<>>)

\* the chain normalizeMap builds from the members ms: one "map" operation
\* per member, each built from that member alone
MapChain(ms) ==
    Chain([k \in 1..Len(ms) |-> Lifter("map", <<>>, <<ms[k]>>)])

\* C16 (as claimed): the branch of a plain-map entry is a chain of exactly
\* one map operation, built by one call of the map builder with the whole
\* map object, whatever the number of its members.
C16_OneMapOperation ==
    \A i \in 1..N :
        (BranchBuilt(i) /\ IsPlain(def.elems[i])) =>
            /\ normalizeOps[i] =
                   Chain(<<Lifter("map", <<>>, def.elems[i].map.members)>>)
            /\ Cardinality(CallsOf(i, "map")) = 1

\* C16 (amended): the branch of a plain-map entry is a chain of one map
\* operation per member of the map object, in member order, each built by
\* its own call of the map builder with an object holding that member
\* alone, and combinator.chain is called once; the branch of a conditional
\* entry is the chain of the check chain and of such a map chain.
C16_OneMapOperationPerMember ==
    \A i \in 1..N :
        LET e == def.elems[i] IN
        /\ (BranchBuilt(i) /\ IsPlain(e)) =>
              /\ normalizeOps[i] = MapChain(e.map.members)
              /\ Cardinality(CallsOf(i, "map")) = Len(e.map.members)
              /\ Cardinality(CallsOf(i, "combinator.chain")) = 1
        /\ (BranchBuilt(i) /\ IsConditional(e)) =>
              /\ normalizeOps[i] =
                     Chain(<<Chain(<<Lifter("check", <<>>, e.check.elems)>>),
                             MapChain(e.map.members)>>)
              /\ Cardinality(CallsOf(i, "map")) = Len(e.map.members)
              /\ Cardinality(CallsOf(i, "check")) = 1

\* the branch of a plain-map entry with two members has been built
C16_Witness ==
    /\ BranchBuilt(1)
    /\ IsPlain(def.elems[1])
    /\ Len(def.elems[1].map.members) = 2
    /\ Len(normalizeOps[1].ops) = 2

(* ------------------------------------------------------------------ *)
(* C17  the list handed to broadcast                                   *)
(* ------------------------------------------------------------------ *)

\* the calls of combinator.broadcast made by the build
BroadcastCalls ==
    { k \in 1..Len(calls) :
        calls[k].ev = "call" /\ calls[k].name = "combinator.broadcast" }

\* C17: once a build of N entries has returned, combinator.broadcast has
\* been called exactly once, that call is the last registry event of the
\* build, and the Lifter returned holds N + 1 operations: the wrapper of
\* slot i at position i for each entry i, then the pass-through.
C17_BroadcastList ==
    Returned =>
        /\ BroadcastCalls = {Len(calls)}
        /\ result.type = "combinator.broadcast"
        /\ Len(result.ops) = N + 1
        /\ \A i \in 1..N : result.ops[i] = Wrapper(i)
        /\ result.ops[N + 1] = PassThrough

\* a build of a plain and a conditional entry has returned
C17_Witness ==
    /\ pc = "built"
    /\ N = 2
    /\ IsPlain(def.elems[1])
    /\ IsConditional(def.elems[2])
    /\ Len(result.ops) = 3

====
